---- MODULE Spec2Model ----
(***************************************************************************)
(* Model of github.com/cockroachdb/errors/withstack/reportable.go:         *)
(* GetReportableStackTrace and the printed-stack parser behind it.         *)
(*                                                                         *)
(* A Go string is a sequence of one-character strings.  The middle dot     *)
(* (U+00B7, two bytes in UTF-8, neither of which is an ASCII byte) is one  *)
(* symbol: no byte-level search of the code can match inside it.           *)
(* A Go int (64 bits on this platform) is a sign and a magnitude written   *)
(* as a sequence of decimal digits without leading zeros, so that the      *)
(* values around 2^63 and 2^64 are exact.                                  *)
(***************************************************************************)
EXTENDS Integers, Sequences, FiniteSets, TLC

VARIABLES
    pc,      \* position of the call: "call", "loop" (inside the for of parsePrintedStack), "done"
    err,     \* the error value given to GetReportableStackTrace
    st,      \* the string argument of the function called
    lines,   \* parsePrintedStack: lines
    i,       \* parsePrintedStack: the loop index, 0-based as in the code
    frames,  \* parsePrintedStack: frames, in the order appended (<<>> is nil)
    spans,   \* history: for each frame appended, <<i, nextI>> of its entry
    result   \* the value returned

vars == <<pc, err, st, lines, i, frames, spans, result>>

-----------------------------------------------------------------------------
(* Characters *)

Tab == "\t"
NewLine == "\n"
Space == " "
Colon == ":"
Period == "."
MidDot == "·"
Slash == "/"

Digits == <<"0", "1", "2", "3", "4", "5", "6", "7", "8", "9">>

IsDigit(c) == \E d \in 1..Len(Digits) : Digits[d] = c

DigitVal(c) == (CHOOSE d \in 1..Len(Digits) : Digits[d] = c) - 1

\* unicode.IsSpace, restricted to the characters a TLA+ string can hold
IsSpace(c) == c \in {" ", "\t", "\n", "\r", "\f"}

-----------------------------------------------------------------------------
(* Go string primitives, with Go's 0-based indices *)

\* s[lo:hi]
Slice(s, lo, hi) == SubSeq(s, lo + 1, hi)

RECURSIVE TrimLeft(_)
TrimLeft(s) ==
    IF s # <<>> /\ IsSpace(Head(s)) THEN TrimLeft(Tail(s)) ELSE s

RECURSIVE TrimRight(_)
TrimRight(s) ==
    IF s # <<>> /\ IsSpace(s[Len(s)]) THEN TrimRight(SubSeq(s, 1, Len(s) - 1)) ELSE s

\* strings.TrimSpace
TrimSpace(s) == TrimRight(TrimLeft(s))

\* strings.HasPrefix
HasPrefix(s, p) == Len(s) >= Len(p) /\ SubSeq(s, 1, Len(p)) = p

RECURSIVE IndexFrom(_, _, _)
IndexFrom(s, c, k) ==
    IF k >= Len(s) THEN -1
    ELSE IF s[k + 1] = c THEN k
    ELSE IndexFrom(s, c, k + 1)

\* strings.Split(s, sep) for a one-character sep: always at least one element
RECURSIVE Split(_, _)
Split(s, sep) ==
    LET k == IndexFrom(s, sep, 0) IN
    IF k = -1 THEN <<s>>
    ELSE <<Slice(s, 0, k)>> \o Split(Slice(s, k + 1, Len(s)), sep)

RECURSIVE LastIndexFrom(_, _, _)
LastIndexFrom(s, sub, k) ==
    IF k < 0 THEN -1
    ELSE IF Slice(s, k, k + Len(sub)) = sub THEN k
    ELSE LastIndexFrom(s, sub, k - 1)

\* strings.LastIndex, strings.LastIndexByte
LastIndex(s, sub) == LastIndexFrom(s, sub, Len(s) - Len(sub))

\* strings.Replace(s, old, new, -1) for one-symbol old and new
ReplaceAll(s, old, new) == [k \in 1..Len(s) |-> IF s[k] = old THEN new ELSE s[k]]

-----------------------------------------------------------------------------
(* Go int, and strconv.Atoi *)

GoInt(neg, mag) == [neg |-> neg /\ mag # <<>>, mag |-> mag]

IntZero == GoInt(FALSE, <<>>)

\* 2^64 - 1, 2^63 - 1 and 2^63
MaxUint64 == <<1,8,4,4,6,7,4,4,0,7,3,7,0,9,5,5,1,6,1,5>>
MaxInt64 == <<9,2,2,3,3,7,2,0,3,6,8,5,4,7,7,5,8,0,7>>
MinInt64Mag == <<9,2,2,3,3,7,2,0,3,6,8,5,4,7,7,5,8,0,8>>

\* a < b for magnitudes without leading zeros
MagLess(a, b) ==
    \/ Len(a) < Len(b)
    \/ /\ Len(a) = Len(b)
       /\ \E k \in 1..Len(a) :
            /\ a[k] < b[k]
            /\ \A j \in 1..(k - 1) : a[j] = b[j]

\* n*10 + d
MagPush(n, d) == IF n = <<>> /\ d = 0 THEN <<>> ELSE Append(n, d)

\* strconv.ParseUint(s, 10, 64): the digit loop, stopping at the first bad
\* character (syntax error, value 0) or at the first overflow (range error,
\* value 2^64-1), whichever comes first
RECURSIVE ParseUintLoop(_, _, _)
ParseUintLoop(s, k, n) ==
    IF k > Len(s) THEN [val |-> n, err |-> "nil"]
    ELSE IF ~IsDigit(s[k]) THEN [val |-> <<>>, err |-> "syntax"]
    ELSE LET n1 == MagPush(n, DigitVal(s[k])) IN
         IF MagLess(MaxUint64, n1) THEN [val |-> MaxUint64, err |-> "range"]
         ELSE ParseUintLoop(s, k + 1, n1)

ParseUint(s) ==
    IF s = <<>> THEN [val |-> <<>>, err |-> "syntax"] ELSE ParseUintLoop(s, 1, <<>>)

\* strconv.Atoi: the value returned, and the error
Atoi(s) ==
    IF s = <<>> THEN [val |-> IntZero, err |-> "syntax"]
    ELSE
      LET neg == s[1] = "-"
          body == IF s[1] \in {"+", "-"} THEN Tail(s) ELSE s
          un == ParseUint(body)
      IN  IF un.err = "syntax" THEN [val |-> IntZero, err |-> "syntax"]
          ELSE IF ~neg /\ MagLess(MaxInt64, un.val)
                 THEN [val |-> GoInt(FALSE, MaxInt64), err |-> "range"]
          ELSE IF neg /\ MagLess(MinInt64Mag, un.val)
                 THEN [val |-> GoInt(TRUE, MinInt64Mag), err |-> "range"]
          ELSE [val |-> GoInt(neg, un.val), err |-> "nil"]

\* strconv.Itoa, as %d prints a line number
Itoa(n) ==
    LET ds == IF n.mag = <<>> THEN <<"0">> ELSE [k \in 1..Len(n.mag) |-> Digits[n.mag[k] + 1]]
    IN  IF n.neg THEN <<"-">> \o ds ELSE ds

-----------------------------------------------------------------------------
(* reportable.go *)

Unknown == <<"u", "n", "k", "n", "o", "w", "n">>

\* const src = "/src/"
SrcMarker == <<"/", "s", "r", "c", "/">>

RECURSIVE FirstIndexFrom(_, _, _)
FirstIndexFrom(s, sub, k) ==
    IF k > Len(s) - Len(sub) THEN -1
    ELSE IF Slice(s, k, k + Len(sub)) = sub THEN k
    ELSE FirstIndexFrom(s, sub, k + 1)

\* trimPath cutting at the first marker (strings.Index) instead of the last
trimPathFirstMarker(filename) ==
    LET prefix == FirstIndexFrom(filename, SrcMarker, 0) IN
    IF prefix = -1 THEN filename
    ELSE Slice(filename, prefix + Len(SrcMarker), Len(filename))

trimPath(filename) ==
    LET prefix == LastIndex(filename, SrcMarker) IN
    IF prefix = -1 THEN filename
    ELSE Slice(filename, prefix + Len(SrcMarker), Len(filename))

\* functionName splitting at the first period instead of the last
functionNameFirstPeriod(fnName) ==
    LET idx == IndexFrom(fnName, Period, 0)
        pack == IF idx # -1 THEN Slice(fnName, 0, idx) ELSE <<>>
        name == IF idx # -1 THEN Slice(fnName, idx + 1, Len(fnName)) ELSE fnName
    IN  [pack |-> pack, name |-> ReplaceAll(name, MidDot, Period)]

functionName(fnName) ==
    LET idx == LastIndex(fnName, <<Period>>)
        pack == IF idx # -1 THEN Slice(fnName, 0, idx) ELSE <<>>
        name == IF idx # -1 THEN Slice(fnName, idx + 1, Len(fnName)) ELSE fnName
    IN  [pack |-> pack, name |-> ReplaceAll(name, MidDot, Period)]

\* parsePrintedStackEntry taking the next line as file:line without looking
\* for its tab
parsePrintedStackEntryAnyNextLine(ls, k) ==
    LET fnName == ls[k + 1]
        second == k < Len(ls) - 1
        fileLine == TrimSpace(ls[k + 2])
        lineSep == LastIndex(fileLine, <<Colon>>)
        file == IF ~second THEN <<>>
                ELSE IF lineSep = -1 THEN fileLine
                ELSE Slice(fileLine, 0, lineSep)
        line == IF ~second \/ lineSep = -1 THEN IntZero
                ELSE Atoi(Slice(fileLine, lineSep + 1, Len(fileLine))).val
    IN  [newI |-> IF second THEN k + 1 ELSE k, file |-> file, line |-> line, fnName |-> fnName]

parsePrintedStackEntry(ls, k) ==
    LET fnName == ls[k + 1]
        second == k < Len(ls) - 1 /\ HasPrefix(ls[k + 2], <<Tab>>)
        fileLine == TrimSpace(ls[k + 2])
        lineSep == LastIndex(fileLine, <<Colon>>)
        file == IF ~second THEN <<>>
                ELSE IF lineSep = -1 THEN fileLine
                ELSE Slice(fileLine, 0, lineSep)
        line == IF ~second \/ lineSep = -1 THEN IntZero
                ELSE Atoi(Slice(fileLine, lineSep + 1, Len(fileLine))).val
    IN  [newI |-> IF second THEN k + 1 ELSE k, file |-> file, line |-> line, fnName |-> fnName]

\* composeFrame without the special case of "unknown"
composeFrameSplitAlways(e) ==
    LET fn == functionName(e.fnName) IN
    [AbsolutePath |-> e.file,
     Filename |-> trimPath(e.file),
     Lineno |-> e.line,
     InApp |-> FALSE,
     Module |-> fn.pack,
     Function |-> fn.name]

\* the frame composed in the body of the loop of parsePrintedStack
composeFrame(e) ==
    LET fn == functionName(e.fnName) IN
    [AbsolutePath |-> e.file,
     Filename |-> trimPath(e.file),
     Lineno |-> e.line,
     InApp |-> FALSE,
     Module |-> IF e.fnName # Unknown THEN fn.pack ELSE Unknown,
     Function |-> IF e.fnName # Unknown THEN fn.name ELSE e.fnName]

\* the for loop of parsePrintedStack, from index k on
RECURSIVE parseLoop(_, _, _)
parseLoop(ls, k, fs) ==
    IF k < Len(ls)
      THEN LET e == parsePrintedStackEntry(ls, k) IN
           parseLoop(ls, e.newI + 1, Append(fs, composeFrame(e)))
      ELSE fs

\* the in-place reversal: for i, j := 0, len-1; i < j; i, j = i+1, j-1
RECURSIVE reverseLoop(_, _, _)
reverseLoop(fs, a, b) ==
    IF a < b
      THEN reverseLoop([fs EXCEPT ![a + 1] = fs[b + 1], ![b + 1] = fs[a + 1]], a + 1, b - 1)
      ELSE fs

\* the reversal with j starting one short
reverseFramesOneShort(fs) == reverseLoop(fs, 0, Len(fs) - 2)

reverseFrames(fs) == reverseLoop(fs, 0, Len(fs) - 1)

Nil == [isNil |-> TRUE, Frames |-> <<>>]

Trace(fs) == [isNil |-> FALSE, Frames |-> fs]

\* the end of parsePrintedStack: nil without frames, the reversed frames otherwise
finishTrace(fs) == IF fs = <<>> THEN Nil ELSE Trace(reverseFrames(fs))

splitLines(s) == Split(TrimSpace(s), NewLine)

parsePrintedStack(s) == finishTrace(parseLoop(splitLines(s), 0, <<>>))

-----------------------------------------------------------------------------
(* GetReportableStackTrace *)

\* the type keys init() registers, and one of another error type
pkgFundamental == "github.com/pkg/errors/*errors.fundamental"
pkgWithStackName == "github.com/pkg/errors/*errors.withStack"
ourWithStackName == "github.com/cockroachdb/errors/withstack/*withstack.withStack"
otherTypeKey == "errors/*errors.errorString"

\* fmt.Sprintf("%+v", st) of a github.com/pkg/errors StackTrace, as the comment
\* of parsePrintedStack describes it: per frame a newline, then either
\* "unknown" or <fn.Name()> newline tab <file>:<linenum>
RECURSIVE printStack(_)
printStack(trace) ==
    IF trace = <<>> THEN <<>>
    ELSE LET f == Head(trace) IN
         <<NewLine>>
         \o (IF f.known
               THEN f.name \o <<NewLine, Tab>> \o f.file \o <<Colon>> \o Itoa(f.line)
               ELSE Unknown)
         \o printStack(Tail(trace))

convertPkgStack(trace) ==
    IF Len(trace) = 0 THEN Nil ELSE parsePrintedStack(printStack(trace))

\* GetReportableStackTrace looking at the safe details before StackTrace()
GetReportableStackTraceDetailsFirst(e) ==
    IF /\ e.hasSafeDetails
       /\ Len(e.safeDetails) > 0
       /\ e.typeKey \in {pkgFundamental, pkgWithStackName, ourWithStackName}
      THEN parsePrintedStack(e.safeDetails[1])
    ELSE IF e.hasStackTrace THEN convertPkgStack(e.stackTrace)
    ELSE Nil

\* GetReportableStackTrace without the case for this package's own withStack
GetReportableStackTraceTwoKinds(e) ==
    IF e.hasStackTrace THEN convertPkgStack(e.stackTrace)
    ELSE IF /\ e.hasSafeDetails
            /\ Len(e.safeDetails) > 0
            /\ e.typeKey \in {pkgFundamental, pkgWithStackName}
      THEN parsePrintedStack(e.safeDetails[1])
    ELSE Nil

GetReportableStackTrace(e) ==
    IF e.hasStackTrace THEN convertPkgStack(e.stackTrace)
    ELSE IF /\ e.hasSafeDetails
            /\ Len(e.safeDetails) > 0
            /\ e.typeKey \in {pkgFundamental, pkgWithStackName, ourWithStackName}
      THEN parsePrintedStack(e.safeDetails[1])
    ELSE Nil

-----------------------------------------------------------------------------
(* Inputs *)

RECURSIVE Flatten(_)
Flatten(ts) == IF ts = <<>> THEN <<>> ELSE Head(ts) \o Flatten(Tail(ts))

\* the sequences of at most n elements of S
SeqsUpTo(S, n) == UNION {[1..m -> S] : m \in 0..n}

\* the strings made of at most n tokens of T
TokenStrings(T, n) == {Flatten(ts) : ts \in SeqsUpTo(T, n)}

MaxTokens == 5
MaxTrace == 3
MaxDetails == 2

ParseTokens ==
    {Unknown, <<"f">>, <<"g", ".", "h">>, <<NewLine>>, <<Tab>>, <<Space>>, <<NewLine, Tab>>}

ParseInputs == TokenStrings(ParseTokens, MaxTokens)

CallSites ==
    { [known |-> FALSE, name |-> <<>>, file |-> <<>>, line |-> IntZero],
      [known |-> TRUE, name |-> <<"g", ".", "h">>,
       file |-> <<"/", "s", "r", "c", "/", "a">>, line |-> GoInt(FALSE, <<4, 2>>)],
      [known |-> TRUE, name |-> <<"m", ".", "f", MidDot, "1">>,
       file |-> <<"/", "b">>, line |-> GoInt(FALSE, <<7>>)] }

DetailStrings ==
    { <<>>,
      Unknown,
      <<"f">>,
      <<NewLine, "g", ".", "h", NewLine, Tab, "/", "s", "r", "c", "/", "a", Colon, "7">> }

NoErr ==
    [hasStackTrace |-> FALSE, stackTrace |-> <<>>,
     hasSafeDetails |-> FALSE, safeDetails |-> <<>>, typeKey |-> otherTypeKey]

Errs ==
    [hasStackTrace : BOOLEAN, stackTrace : SeqsUpTo(CallSites, MaxTrace),
     hasSafeDetails : BOOLEAN, safeDetails : SeqsUpTo(DetailStrings, MaxDetails),
     typeKey : {pkgFundamental, pkgWithStackName, ourWithStackName, otherTypeKey}]

-----------------------------------------------------------------------------
(* The calls *)

Idle ==
    /\ pc = "call"
    /\ lines = <<>>
    /\ i = 0
    /\ frames = <<>>
    /\ spans = <<>>
    /\ result = Nil

\* a caller about to call GetReportableStackTrace(err)
Init ==
    /\ Idle
    /\ err \in Errs
    /\ st = <<>>

Resolve ==
    /\ pc = "call"
    /\ result' = GetReportableStackTrace(err)
    /\ pc' = "done"
    /\ UNCHANGED <<err, st, lines, i, frames, spans>>

Next == Resolve

Spec == Init /\ [][Next]_vars

\* what convertPkgStack hands to parsePrintedStack
PrintedTraces == {printStack(t) : t \in SeqsUpTo(CallSites, MaxTrace)}

\* a caller about to call parsePrintedStack(st)
InitParse ==
    /\ Idle
    /\ err = NoErr
    /\ st \in ParseInputs \cup PrintedTraces

\* parsePrintedStack up to the for statement
ParseBegin ==
    /\ pc = "call"
    /\ lines' = splitLines(st)
    /\ i' = 0
    /\ frames' = <<>>
    /\ pc' = "loop"
    /\ UNCHANGED <<err, st, spans, result>>

\* one iteration of the for loop, with its i++
ParseEntry ==
    /\ pc = "loop"
    /\ i < Len(lines)
    /\ LET e == parsePrintedStackEntry(lines, i) IN
         /\ frames' = Append(frames, composeFrame(e))
         /\ spans' = Append(spans, <<i, e.newI>>)
         /\ i' = e.newI + 1
    /\ UNCHANGED <<pc, err, st, lines, result>>

\* the loop condition fails: the nil check, the reversal, the return
ParseEnd ==
    /\ pc = "loop"
    /\ ~(i < Len(lines))
    /\ result' = finishTrace(frames)
    /\ pc' = "done"
    /\ UNCHANGED <<err, st, lines, i, frames, spans>>

NextParse == ParseBegin \/ ParseEntry \/ ParseEnd

SpecParse == InitParse /\ [][NextParse]_vars

\* the loop run step by step returns what parsePrintedStack returns
StepwiseAgrees == pc = "done" => result = parsePrintedStack(st)

-----------------------------------------------------------------------------
(* Callers of parsePrintedStack with a file:line line, and with a path *)

MaxSuffixTokens == 4
MaxPathTokens == 6
MaxNameTokens == 4

\* 2^63 written in decimal: one more than the largest int
TwoTo63 == <<"9","2","2","3","3","7","2","0","3","6","8","5","4","7","7","5","8","0","8">>

SuffixTokens == {<<"a">>, <<Colon>>, <<"7">>, <<"-">>, <<"+">>, <<Space>>, TwoTo63}

\* a first line, a line break with or without the tab, and the rest of the text
EntryInputs ==
    { first \o sep \o rest :
        first \in {Unknown, <<"f">>},
        sep \in {<<NewLine, Tab>>, <<NewLine>>},
        rest \in TokenStrings(SuffixTokens, MaxSuffixTokens) }

InitEntry ==
    /\ Idle
    /\ err = NoErr
    /\ st \in EntryInputs

SpecEntry == InitEntry /\ [][NextParse]_vars

PathTokens == {<<Slash>>, <<"s", "r", "c">>, <<"s">>, <<"a">>}

\* a function line, then a tabbed line holding a path, with or without :7
PathInputs ==
    { <<"f", NewLine, Tab>> \o path \o num :
        path \in TokenStrings(PathTokens, MaxPathTokens),
        num \in {<<>>, <<Colon, "7">>} }

InitPath ==
    /\ Idle
    /\ err = NoErr
    /\ st \in PathInputs

SpecPath == InitPath /\ [][NextParse]_vars

NameTokens == {<<Period>>, <<MidDot>>, <<"a">>, <<Slash>>, <<Space>>}

\* a caller about to call functionName(st)
InitName ==
    /\ Idle
    /\ err = NoErr
    /\ st \in TokenStrings(NameTokens, MaxNameTokens)

CallFunctionName ==
    /\ pc = "call"
    /\ result' = functionName(st)
    /\ pc' = "done"
    /\ UNCHANGED <<err, st, lines, i, frames, spans>>

NextName == CallFunctionName

SpecName == InitName /\ [][NextName]_vars

-----------------------------------------------------------------------------
(* Vocabulary of the properties *)

\* sub occurs in s at the 1-based position k
OccursAt(s, sub, k) ==
    /\ k >= 1
    /\ k + Len(sub) - 1 <= Len(s)
    /\ \A j \in 1..Len(sub) : s[k + j - 1] = sub[j]

Occurrences(s, sub) == {k \in 1..Len(s) : OccursAt(s, sub, k)}

IsSuffix(d, a) == \E n \in 0..Len(a) : d = SubSeq(a, n + 1, Len(a))

Largest(S) == CHOOSE k \in S : \A j \in S : j <= k

Blank(s) == \A k \in 1..Len(s) : IsSpace(s[k])

Returned == pc = "done"

\* the entries parsed so far, in the order of the text
Entries == 1..Len(frames)

\* the first line of entry k, and whether a tab-prefixed line follows it
FirstLine(k) == lines[spans[k][1] + 1]

HasSecondLine(k) ==
    /\ spans[k][1] + 2 <= Len(lines)
    /\ lines[spans[k][1] + 2] # <<>>
    /\ lines[spans[k][1] + 2][1] = Tab

SecondLine(k) == TrimSpace(lines[spans[k][1] + 2])

Colons(t) == {c \in 1..Len(t) : t[c] = Colon}

\* the file part of a trimmed second line
FilePart(t) == IF Colons(t) = {} THEN t ELSE SubSeq(t, 1, Largest(Colons(t)) - 1)

\* the text after the last colon
NumberPart(t) == SubSeq(t, Largest(Colons(t)) + 1, Len(t))

RECURSIVE StripZeros(_)
StripZeros(ds) == IF ds # <<>> /\ Head(ds) = 0 THEN StripZeros(Tail(ds)) ELSE ds

Unsigned(t) == IF t # <<>> /\ t[1] \in {"+", "-"} THEN Tail(t) ELSE t

\* t is an optional sign and at least one decimal digit
IsDecimal(t) == Unsigned(t) # <<>> /\ \A k \in 1..Len(Unsigned(t)) : IsDigit(Unsigned(t)[k])

DecimalValue(t) ==
    GoInt(t[1] = "-", StripZeros([k \in 1..Len(Unsigned(t)) |-> DigitVal(Unsigned(t)[k])]))

InIntRange(v) ==
    IF v.neg THEN ~MagLess(MinInt64Mag, v.mag) ELSE ~MagLess(MaxInt64, v.mag)

\* the value of t in base 10 when t parses as an int, 0 when it does not
NumberOrZero(t) ==
    IF IsDecimal(t) /\ InIntRange(DecimalValue(t)) THEN DecimalValue(t) ELSE IntZero

-----------------------------------------------------------------------------
(* C1 *)

\* C1: parsePrintedStack of an empty string, of whitespace only or of blank
\* lines only returns nil, not a Trace holding a frame.
C1_BlankInputIsNoTrace == (Returned /\ Blank(st)) => result = Nil

-----------------------------------------------------------------------------
(* C2, C3: checked under Spec *)

Registered == {pkgFundamental, pkgWithStackName, ourWithStackName}

\* C2: an error value with a StackTrace() method gets exactly
\* convertPkgStack of that trace, nil when the trace is empty, whatever its
\* safe details and type key are.
C2_StructuredTraceFirst ==
    (Returned /\ err.hasStackTrace) =>
        /\ result = convertPkgStack(err.stackTrace)
        /\ err.stackTrace = <<>> => result = Nil
        /\ err.stackTrace # <<>> =>
             /\ ~result.isNil
             /\ Len(result.Frames) = Len(err.stackTrace)

\* the structured trace is empty while the safe details would have given a Trace
C2_Witness ==
    /\ Returned
    /\ err.hasStackTrace
    /\ err.stackTrace = <<>>
    /\ err.hasSafeDetails
    /\ Len(err.safeDetails) > 0
    /\ err.typeKey \in Registered
    /\ ~parsePrintedStack(err.safeDetails[1]).isNil
    /\ result = Nil

\* C3: without a StackTrace() method, the parser is applied to the first safe
\* detail if and only if the value has safe details, at least one is present
\* and its type key is one of the three registered; otherwise the result is nil.
C3_SafeDetailsSecond ==
    (Returned /\ ~err.hasStackTrace) =>
        IF /\ err.hasSafeDetails
           /\ Len(err.safeDetails) > 0
           /\ err.typeKey \in Registered
          THEN result = parsePrintedStack(err.safeDetails[1])
          ELSE result = Nil

\* the first of two different details is parsed
C3_Witness ==
    /\ Returned
    /\ ~err.hasStackTrace
    /\ err.hasSafeDetails
    /\ Len(err.safeDetails) = 2
    /\ err.safeDetails[1] # err.safeDetails[2]
    /\ err.typeKey = ourWithStackName
    /\ ~result.isNil
    /\ Len(result.Frames) = 1
    /\ result.Frames[1].Lineno = GoInt(FALSE, <<7>>)

-----------------------------------------------------------------------------
(* C4, C10: checked under SpecParse *)

\* C4: the Trace returned lists the frames in the reverse of the order of the
\* text: position k holds the frame built from entry n-1-k, none dropped,
\* none twice; a printed structured trace comes back oldest call first.
C4_OldestFirst ==
    (Returned /\ ~result.isNil) =>
        LET n == Len(frames) IN
        /\ Len(result.Frames) = n
        /\ \A k \in 1..n :
             /\ result.Frames[k] = frames[n + 1 - k]
             /\ result.Frames[k] =
                  composeFrame(parsePrintedStackEntry(lines, spans[n + 1 - k][1]))
        /\ \A t \in SeqsUpTo(CallSites, MaxTrace) :
             (t # <<>> /\ st = printStack(t)) =>
                /\ n = Len(t)
                /\ \A k \in 1..n :
                     LET site == t[n + 1 - k] IN
                     /\ result.Frames[k].AbsolutePath = site.file
                     /\ result.Frames[k].Lineno = site.line
                     /\ (result.Frames[k].Function = Unknown) = ~site.known

\* three entries, the first and the last of them different
C4_Witness ==
    /\ Returned
    /\ ~result.isNil
    /\ Len(result.Frames) = 3
    /\ result.Frames[1] # result.Frames[3]
    /\ result.Frames[1].AbsolutePath # <<>>

\* what holds of the scan at every point of the loop and at the return
ScanInv ==
    (pc \in {"loop", "done"}) =>
        /\ Len(spans) = Len(frames)
        /\ i <= Len(lines)
        /\ i = IF spans = <<>> THEN 0 ELSE spans[Len(spans)][2] + 1
        /\ \A k \in Entries :
             /\ spans[k][1] = IF k = 1 THEN 0 ELSE spans[k - 1][2] + 1
             /\ spans[k][2] = IF HasSecondLine(k) THEN spans[k][1] + 1 ELSE spans[k][1]
             /\ spans[k][2] <= Len(lines) - 1
        /\ Returned =>
             /\ i = Len(lines)
             /\ \A l \in 0..(Len(lines) - 1) :
                  Cardinality({k \in Entries : spans[k][1] <= l /\ l <= spans[k][2]}) = 1
             /\ Len(frames) =
                  Len(lines) - Cardinality({k \in Entries : spans[k][2] # spans[k][1]})
             /\ Len(result.Frames) = Len(frames)

\* the steps parsePrintedStack has left at most: the loop runs at most once
\* per line that is left
StepsLeft ==
    CASE pc = "call" -> Len(splitLines(st)) + 2
      [] pc = "loop" -> Len(lines) - i + 1
      [] pc = "done" -> 0

\* the count of steps left is a natural number, 0 exactly at the return:
\* before the return one of ParseBegin, ParseEntry and ParseEnd is the next step
NotStuck ==
    /\ pc \in {"call", "loop", "done"}
    /\ StepsLeft >= 0
    /\ (StepsLeft = 0) = Returned
    /\ pc = "loop" => (i < Len(lines) \/ i = Len(lines))

\* an iteration moves the index forward by one line or by two, and every
\* step leaves fewer steps
ScanStep ==
    /\ (pc = "loop" /\ pc' = "loop") => (i' = i + 1 \/ i' = i + 2)
    /\ StepsLeft' < StepsLeft

\* C10: the loop takes the lines left to right, one or two per entry (two
\* exactly when the next line exists and begins with a tab), the index grows
\* at each iteration and stays within the lines, every line belongs to exactly
\* one entry, the frames are as many as the lines less the second lines, and
\* the function returns.
C10_GreedyScanTerminates == [](ScanInv /\ NotStuck) /\ [][ScanStep]_vars

\* a tab-prefixed line right after a consumed second line is a first line
C10_Witness ==
    /\ Returned
    /\ \E k \in Entries :
         /\ k > 1
         /\ spans[k - 1][2] # spans[k - 1][1]
         /\ HasPrefix(FirstLine(k), <<Tab>>)

-----------------------------------------------------------------------------
(* C5, C6, C7: checked under SpecEntry *)

\* C5: with a tabbed second line, the file path is its trimmed content up to
\* the last colon (all of it without a colon) and the line number is the
\* base-10 value of the text after the last colon, 0 whenever that text does
\* not parse as an int (empty, not digits, out of range) or there is no
\* colon; without a second line the path is empty and the line number 0.
C5_FileAndLine ==
    \A k \in Entries :
        IF HasSecondLine(k)
          THEN /\ frames[k].AbsolutePath = FilePart(SecondLine(k))
               /\ frames[k].Lineno =
                    IF Colons(SecondLine(k)) = {} THEN IntZero
                    ELSE NumberOrZero(NumberPart(SecondLine(k)))
          ELSE /\ frames[k].AbsolutePath = <<>>
               /\ frames[k].Lineno = IntZero

\* C6: every Frame of every Trace parsePrintedStack produces has a line
\* number >= 0, signed suffixes such as -5 and +7 included.
C6_LineNotNegative ==
    (Returned /\ ~result.isNil) =>
        \A k \in 1..Len(result.Frames) : ~result.Frames[k].Lineno.neg

\* C7 as stated: an entry whose first line is exactly "unknown" gives function
\* "unknown", module "unknown", inApp false and empty path fields (absolute
\* path, display path, line 0) whether or not a tabbed line follows; inApp is
\* false in every Frame.
C7_UnknownEntryAsStated ==
    \A k \in Entries :
        /\ ~frames[k].InApp
        /\ FirstLine(k) = Unknown =>
             /\ frames[k].Function = Unknown
             /\ frames[k].Module = Unknown
             /\ frames[k].AbsolutePath = <<>>
             /\ frames[k].Filename = <<>>
             /\ frames[k].Lineno = IntZero

\* C7: an entry whose first line is exactly "unknown" gives function
\* "unknown", module "unknown" and inApp false; its path fields are empty
\* (line 0) when no tabbed line follows, and are taken from the tabbed line
\* when one follows; inApp is false in every Frame.
C7_UnknownEntry ==
    \A k \in Entries :
        /\ ~frames[k].InApp
        /\ FirstLine(k) = Unknown =>
             /\ frames[k].Function = Unknown
             /\ frames[k].Module = Unknown
             /\ IF HasSecondLine(k)
                  THEN /\ frames[k].AbsolutePath = FilePart(SecondLine(k))
                       /\ frames[k].Filename = trimPath(FilePart(SecondLine(k)))
                  ELSE /\ frames[k].AbsolutePath = <<>>
                       /\ frames[k].Filename = <<>>
                       /\ frames[k].Lineno = IntZero

\* an "unknown" entry with a path and a line number of its own
C7_Witness ==
    /\ Returned
    /\ \E k \in Entries :
         /\ FirstLine(k) = Unknown
         /\ HasSecondLine(k)
         /\ frames[k].AbsolutePath = <<"a">>
         /\ frames[k].Lineno = GoInt(FALSE, <<7>>)
         /\ frames[k].Module = Unknown

-----------------------------------------------------------------------------
(* C8: checked under SpecPath *)

\* C8: in every Frame the display path is trimPath of the absolute path: the
\* text after the last "/src/" when the absolute path holds one (a suffix of
\* it, holding no "/src/" itself, so trimming it again changes nothing), the
\* absolute path itself otherwise.
C8_DisplayPath ==
    \A k \in Entries :
        LET a == frames[k].AbsolutePath
            d == frames[k].Filename
            occ == Occurrences(a, SrcMarker)
        IN  /\ d = trimPath(a)
            /\ IF occ = {} THEN d = a
               ELSE /\ d = SubSeq(a, Largest(occ) + Len(SrcMarker), Len(a))
                    /\ IsSuffix(d, a)
                    /\ Occurrences(d, SrcMarker) = {}
                    /\ trimPath(d) = d

\* a path with two markers and text after the last
C8_Witness ==
    /\ Returned
    /\ \E k \in Entries :
         /\ Cardinality(Occurrences(frames[k].AbsolutePath, SrcMarker)) >= 2
         /\ frames[k].Filename # <<>>
         /\ frames[k].Filename # frames[k].AbsolutePath

-----------------------------------------------------------------------------
(* C9: checked under SpecName *)

Periods(s) == {k \in 1..Len(s) : s[k] = Period}

\* s with every middle dot replaced by a period
Dotted(s, t) ==
    /\ Len(t) = Len(s)
    /\ \A k \in 1..Len(s) : t[k] = IF s[k] = MidDot THEN Period ELSE s[k]

\* C9: functionName splits at the last ".": the module is what is before it,
\* untouched, the function what is after it with every middle dot replaced by
\* a period; without a "." the module is empty and the function the whole
\* string; module + "." + function gives the string back when it holds a "."
\* and no middle dot after the last one.
C9_SplitAtLastPeriod ==
    Returned =>
        IF Periods(st) = {}
          THEN /\ result.pack = <<>>
               /\ Dotted(st, result.name)
          ELSE LET last == Largest(Periods(st))
                   after == SubSeq(st, last + 1, Len(st))
               IN  /\ result.pack = SubSeq(st, 1, last - 1)
                   /\ Dotted(after, result.name)
                   /\ (\A k \in 1..Len(after) : after[k] # MidDot) =>
                        result.pack \o <<Period>> \o result.name = st

\* two periods, a middle dot in the module and one in the function
C9_Witness ==
    /\ Returned
    /\ Cardinality(Periods(st)) >= 1
    /\ \E k \in 1..Len(result.pack) : result.pack[k] = MidDot
    /\ \E k \in 1..Len(st) : k > Largest(Periods(st)) /\ st[k] = MidDot
    /\ Len(result.name) >= 1

====
